---------------------------- MODULE Spec2Model ----------------------------
(***************************************************************************)
(* Model of the data-administration layer of AIDE:                         *)
(*   - src/projectCreation/import_images.py : the image import script      *)
(*     (scan of the image root, filter against the database, bulk insert); *)
(*   - src/modules/DataAdministration/app.py : the request handlers of     *)
(*     DataAdministrator and its helper _parse_range.                      *)
(* Strings the code operates on character by character (paths, "order")    *)
(* are sequences of one-character strings; strings the code only passes    *)
(* along are TLA+ strings.                                                 *)
(***************************************************************************)
EXTENDS Integers, Sequences, FiniteSets, Bags

VARIABLES
    \* ---- import_images.py ----
    staticfiles_dir,  \* config.getProperty('FileServer', 'staticfiles_dir')
    disk,             \* entries under the image root: [path, isdir]
    table,            \* rows of the project's image table, as a bag of filenames
    pc,               \* pc[r]: position of import run r in the script
    imgBaseDir,       \* imgBaseDir[r]
    imgs,             \* imgs[r]: the set (l.65-77), then the batch (l.89-90)
    imgs_existing,    \* imgs_existing[r]
    out,              \* out[r]: lines printed by run r
    \* ---- DataAdministration/app.py ----
    req,              \* the request handled last
    calls,            \* calls made while handling it, in order
    locals,           \* range locals of list_images when it ended
    reply             \* how the handler ended

importVars == <<staticfiles_dir, disk, table, pc, imgBaseDir, imgs, imgs_existing, out>>
handlerVars == <<req, calls, locals, reply>>
vars == <<staticfiles_dir, disk, table, pc, imgBaseDir, imgs, imgs_existing, out,
          req, calls, locals, reply>>

\* Python's None and a present value, for optional values.
None == <<>>
Some(v) == <<v>>

(***************************************************************************)
(* Bounds                                                                  *)
(***************************************************************************)
\* Number of import runs that may be started.
NumRuns == 2
\* Largest number of keys in a listImages request body.
MaxKeys == 2

Runs == 1..NumRuns

(***************************************************************************)
(* String helpers (Python str methods and os.path functions the script     *)
(* uses), on sequences of characters.                                      *)
(***************************************************************************)
sep == "/"

UpperChars == <<"A","B","C","D","E","F","G","H","I","J","K","L","M",
                "N","O","P","Q","R","S","T","U","V","W","X","Y","Z">>
LowerChars == <<"a","b","c","d","e","f","g","h","i","j","k","l","m",
                "n","o","p","q","r","s","t","u","v","w","x","y","z">>

lowerChar(c) ==
    IF \E i \in 1..Len(UpperChars) : UpperChars[i] = c
    THEN LowerChars[CHOOSE i \in 1..Len(UpperChars) : UpperChars[i] = c]
    ELSE c

\* Faulty variant of lower: the case is kept.
lowerKeepCase(s) == s
\* str.lower()
lower(s) == [i \in 1..Len(s) |-> lowerChar(s[i])]

\* str.startswith at offset i (1-based): s[i..] begins with t
StartsAt(s, t, i) ==
    /\ i + Len(t) - 1 <= Len(s)
    /\ \A k \in 1..Len(t) : s[i + k - 1] = t[k]

\* str.endswith
endswith(s, t) == Len(t) <= Len(s) /\ StartsAt(s, t, Len(s) - Len(t) + 1)

\* str.replace(old, ''): every non-overlapping occurrence of old, left to right
RECURSIVE replaceFrom(_, _, _)
replaceFrom(s, old, i) ==
    IF i > Len(s) THEN <<>>
    ELSE IF Len(old) > 0 /\ StartsAt(s, old, i)
         THEN replaceFrom(s, old, i + Len(old))
         ELSE <<s[i]>> \o replaceFrom(s, old, i + 1)

replace(s, old) == replaceFrom(s, old, 1)

\* str.rfind(c): the last index of c (1-based), 0 when absent
rfind(s, c) ==
    IF \E i \in 1..Len(s) : s[i] = c
    THEN CHOOSE i \in 1..Len(s) : s[i] = c /\ \A j \in (i+1)..Len(s) : s[j] # c
    ELSE 0

\* os.path.splitext(p)[1]: from the last dot of the last component, unless that
\* dot is among the component's leading dots
splitext_ext(p) ==
    LET sepIndex == rfind(p, sep)
        dotIndex == rfind(p, ".")
    IN  IF dotIndex > sepIndex
           /\ \E k \in (sepIndex + 1)..(dotIndex - 1) : p[k] # "."
        THEN SubSeq(p, dotIndex, Len(p))
        ELSE <<>>

(***************************************************************************)
(* The file server's disk and the image table                              *)
(***************************************************************************)
\* util.helpers.VALID_IMAGE_EXTENSIONS
VALID_IMAGE_EXTENSIONS == { <<".","j","p","g">>, <<".","p","n","g">> }

F_a_jpg     == <<"/","r","/","a",".","j","p","g">>
F_b_JPG     == <<"/","r","/","b",".","J","P","G">>
F_c_txt     == <<"/","r","/","c",".","t","x","t">>
D_sub       == <<"/","r","/","s","u","b">>
F_sub_d_png == <<"/","r","/","s","u","b","/","d",".","p","n","g">>
F_xa_jpg    == <<"/","r","/","x","a",".","j","p","g">>
D_x         == <<"/","r","/","x">>
D_x_r       == <<"/","r","/","x","/","r">>
F_x_r_a_jpg == <<"/","r","/","x","/","r","/","a",".","j","p","g">>
D_e_jpg     == <<"/","r","/","e",".","j","p","g">>

File(p) == [path |-> p, isdir |-> FALSE]
Dir(p)  == [path |-> p, isdir |-> TRUE]

AllFiles == {File(F_a_jpg), File(F_b_JPG), File(F_c_txt), File(F_sub_d_png),
             File(F_xa_jpg), File(F_x_r_a_jpg)}
OptionalDirs == {Dir(D_e_jpg)}
AllDirs == {Dir(D_sub), Dir(D_x), Dir(D_x_r)} \cup OptionalDirs

\* d is an ancestor directory of the entry at path p
IsAncestor(d, p) == Len(d) < Len(p) /\ StartsAt(p, d, 1) /\ p[Len(d) + 1] = sep

\* A disk: some files, the directories that hold them, and optional directories.
Disks ==
    { fs \cup { d \in AllDirs : d \in od \/ \E f \in fs : IsAncestor(d.path, f.path) } :
        fs \in SUBSET AllFiles, od \in SUBSET OptionalDirs }

StaticfilesDirs == { <<"/","r">>, <<"/","r","/">> }

K_a_jpg == <<"a",".","j","p","g">>
InitialTables == { EmptyBag, SetToBag({K_a_jpg}) }

\* util.helpers.listDirectory(imgBaseDir, recursive=True): every entry below the root
listDirectory(d, baseDir) == { e.path : e \in { x \in d : StartsAt(x.path, baseDir, 1) } }

\* os.path.isdir
isdir(d, p) == \E e \in d : e.path = p /\ e.isdir


(***************************************************************************)
(* import_images.py, one run r of the script                               *)
(***************************************************************************)
\* Faulty variant of keepEntry: the extension is compared as it is written.
keepEntryCaseSensitive(d, i) ==
    /\ ~isdir(d, i)
    /\ lowerKeepCase(splitext_ext(i)) \in VALID_IMAGE_EXTENSIONS
\* l.68-74: the entries the loop does not skip
keepEntry(d, i) ==
    /\ ~isdir(d, i)
    /\ lower(splitext_ext(i)) \in VALID_IMAGE_EXTENSIONS

\* l.76: baseName = i.replace(imgBaseDir, '')
baseName(i, baseDir) == replace(i, baseDir)

\* l.65-77: the set imgs after the loop
locateImages(d, baseDir) ==
    { baseName(i, baseDir) : i \in { p \in listDirectory(d, baseDir) : keepEntry(d, p) } }

\* l.81-87: SELECT filename FROM image, as a set
existingFilenames(t) == BagToSet(t)

\* Faulty variant of filterExisting: registered filenames stay in the batch.
filterNothing(found, existing) == found
\* l.89: imgs.difference(imgs_existing)
filterExisting(found, existing) == found \ existing

\* Variant of uniqueViolation: a table without the constraint.
noUniqueConstraint(t, batch) == FALSE
\* The image table's UNIQUE constraint on filename: a bulk insert holding a
\* filename that is already a row fails as a whole.
uniqueViolation(t, batch) == \E f \in batch : BagIn(f, t)

\* l.35-60
Start(r) ==
    /\ pc[r] = "idle"
    /\ imgBaseDir' = [imgBaseDir EXCEPT ![r] =
            IF ~endswith(staticfiles_dir, <<sep>>)
            THEN staticfiles_dir \o <<sep>>
            ELSE staticfiles_dir]
    /\ out' = [out EXCEPT ![r] = <<"Setup...">>]
    /\ pc' = [pc EXCEPT ![r] = "locate"]
    /\ UNCHANGED <<staticfiles_dir, disk, table, imgs, imgs_existing>>
    /\ UNCHANGED handlerVars

\* A run started while no other run is between its start and its end.
StartSequential(r) ==
    /\ \A s \in Runs : pc[s] \in {"idle", "done", "failed"}
    /\ Start(r)

\* l.63-77
Locate(r) ==
    /\ pc[r] = "locate"
    /\ imgs' = [imgs EXCEPT ![r] = locateImages(disk, imgBaseDir[r])]
    /\ out' = [out EXCEPT ![r] = Append(@, "Locating image paths...")]
    /\ pc' = [pc EXCEPT ![r] = "filter"]
    /\ UNCHANGED <<staticfiles_dir, disk, table, imgBaseDir, imgs_existing>>
    /\ UNCHANGED handlerVars

\* l.79-90
Filter(r) ==
    /\ pc[r] = "filter"
    /\ imgs_existing' = [imgs_existing EXCEPT ![r] = existingFilenames(table)]
    /\ imgs' = [imgs EXCEPT ![r] = filterExisting(@, existingFilenames(table))]
    /\ out' = [out EXCEPT ![r] = Append(@, "Filter images already in database...")]
    /\ pc' = [pc EXCEPT ![r] = "insert"]
    /\ UNCHANGED <<staticfiles_dir, disk, table, imgBaseDir>>
    /\ UNCHANGED handlerVars

\* l.92-100: the bulk insert either adds every row of the batch, or raises and
\* adds none; the exception ends the script before its last line is printed.
Insert(r) ==
    /\ pc[r] = "insert"
    /\ IF uniqueViolation(table, imgs[r])
       THEN /\ table' = table
            /\ out' = [out EXCEPT ![r] = Append(@, "Adding to database...")]
            /\ pc' = [pc EXCEPT ![r] = "failed"]
       ELSE /\ table' = table (+) SetToBag(imgs[r])
            /\ out' = [out EXCEPT ![r] = @ \o <<"Adding to database...", "Done.">>]
            /\ pc' = [pc EXCEPT ![r] = "done"]
    /\ UNCHANGED <<staticfiles_dir, disk, imgBaseDir, imgs, imgs_existing>>
    /\ UNCHANGED handlerVars

NoRequest == [handler |-> "none"]

InitImport ==
    /\ staticfiles_dir \in StaticfilesDirs
    /\ disk \in Disks
    /\ table \in InitialTables
    /\ pc = [r \in Runs |-> "idle"]
    /\ imgBaseDir = [r \in Runs |-> <<>>]
    /\ imgs = [r \in Runs |-> {}]
    /\ imgs_existing = [r \in Runs |-> {}]
    /\ out = [r \in Runs |-> <<>>]

InitHandlersIdle ==
    /\ req = NoRequest
    /\ calls = <<>>
    /\ locals = None
    /\ reply = None

InitScript == InitImport /\ InitHandlersIdle

\* Import runs that may overlap in any way.
NextImport == \E r \in Runs : Start(r) \/ Locate(r) \/ Filter(r) \/ Insert(r)
SpecImport == InitScript /\ [][NextImport]_vars

\* Import runs one after the other.
NextSequential == \E r \in Runs : StartSequential(r) \/ Locate(r) \/ Filter(r) \/ Insert(r)
SpecSequential == InitScript /\ [][NextSequential]_vars


(***************************************************************************)
(* DataAdministration/app.py                                               *)
(*                                                                         *)
(* A JSON object is a record that lists the keys it holds in "keys"; a     *)
(* field whose key is absent holds a filler that is never read.            *)
(* request.json of a request without a JSON body is None: "none" is TRUE.  *)
(***************************************************************************)
\* datetime.time.min, the default minimum of the two time filters
TimeMin == 0
\* the default bounds of the three count filters
CountMin == 0
CountMax == 1000000000

Projects == {"p1", "p2"}
\* helpers.current_time()
Nows == {20, 21}
\* what a middleware call does: it returns, or it raises
MwOutcomes == {"ok", "raise"}

BoundVals == {5, 7}
RangeNames == {"imageAddedRange", "lastViewedRange", "viewcountRange",
               "numAnnoRange", "numPredRange"}
ListKeys == RangeNames \cup {"orderBy", "order", "limit"}

RangeEntries ==
    { [keys |-> K,
       min |-> IF "min" \in K THEN a ELSE -1,
       max |-> IF "max" \in K THEN b ELSE -1] :
        K \in SUBSET {"min", "max"}, a \in BoundVals, b \in BoundVals }
NoEntry == [keys |-> {}, min |-> -1, max |-> -1]

OrderBys == {"filename", "DROP TABLE image"}
Orders == { <<"A","S","C">>, <<"d","e","s","c">> }
Limits == {10}

NoBody == [none |-> TRUE, keys |-> {}]

ListBody(K, rf, ob, od, lm) ==
    [none |-> FALSE, keys |-> K,
     imageAddedRange |-> IF "imageAddedRange" \in K THEN rf["imageAddedRange"] ELSE NoEntry,
     lastViewedRange |-> IF "lastViewedRange" \in K THEN rf["lastViewedRange"] ELSE NoEntry,
     viewcountRange |-> IF "viewcountRange" \in K THEN rf["viewcountRange"] ELSE NoEntry,
     numAnnoRange |-> IF "numAnnoRange" \in K THEN rf["numAnnoRange"] ELSE NoEntry,
     numPredRange |-> IF "numPredRange" \in K THEN rf["numPredRange"] ELSE NoEntry,
     orderBy |-> ob, order |-> od, limit |-> lm]

ListBodies ==
    UNION { { ListBody(K, rf, ob, od, lm) :
                rf \in [K \cap RangeNames -> RangeEntries],
                ob \in (IF "orderBy" \in K THEN OrderBys ELSE {""}),
                od \in (IF "order" \in K THEN Orders ELSE {<<>>}),
                lm \in (IF "limit" \in K THEN Limits ELSE {-1}) } :
            K \in { X \in SUBSET ListKeys : Cardinality(X) <= MaxKeys } }

ImageNames == { <<>>, <<"a.jpg">>, <<"a.jpg", "b.jpg">> }
AddBodies ==
    { [none |-> FALSE, keys |-> K, images |-> IF "images" \in K THEN im ELSE <<>>] :
        K \in SUBSET {"images"}, im \in ImageNames }

ImageIDs == { <<>>, <<"id1">>, <<"id1", "id2">> }
RemoveBodies ==
    { [none |-> FALSE, keys |-> K,
       images |-> IF "images" \in K THEN im ELSE <<>>,
       forceRemove |-> IF "forceRemove" \in K THEN fr ELSE FALSE,
       deleteFromDisk |-> IF "deleteFromDisk" \in K THEN dd ELSE FALSE] :
        K \in SUBSET {"images", "forceRemove", "deleteFromDisk"},
        im \in ImageIDs, fr \in BOOLEAN, dd \in BOOLEAN }

UploadFiles == { <<>>, <<"f1.jpg">> }

\* l.38-39: loginCheck(project=project, admin=True)
loginCheckCall(project, admin) ==
    [fn |-> "loginCheck",
     args |-> [project |-> project, admin |-> admin, superuser |-> FALSE,
               canCreateProjects |-> FALSE, extend_session |-> FALSE]]

MwCall(name, args) == [fn |-> name, args |-> args]

\* How a handler ends: abort(401, 'forbidden'), a returned body, or an
\* exception that leaves the handler.
Abort401 == [kind |-> "abort", code |-> 401, text |-> "forbidden"]
Return(body) == [kind |-> "return", body |-> body]
Raise(exc) == [kind |-> "raise", exc |-> exc]
\* l.133, l.175, l.209: return {'status': 1, 'message': str(e)}
ErrorBody(exc) == [status |-> 1, message |-> exc]

\* Faulty variant of _parse_range: the "if" of l.62 is missing.
_parse_range_max_overwritten(params, paramName, minValue, maxValue) ==
    IF params.none \/ paramName \notin params.keys
    THEN None
    ELSE LET entry == params[paramName]
         IN  Some(<<IF "min" \notin entry.keys THEN minValue ELSE entry.min, maxValue>>)
\* Faulty variant of _parse_range: the two defaults are swapped.
_parse_range_swapped_defaults(params, paramName, minValue, maxValue) ==
    IF params.none \/ paramName \notin params.keys
    THEN None
    ELSE LET entry == params[paramName]
         IN  Some(<<IF "min" \notin entry.keys THEN maxValue ELSE entry.min,
                    IF "max" \notin entry.keys THEN minValue ELSE entry.max>>)
\* l.46-64
_parse_range(params, paramName, minValue, maxValue) ==
    IF params.none \/ paramName \notin params.keys
    THEN None
    ELSE LET entry == params[paramName]
             entry1 == IF "min" \notin entry.keys
                       THEN [entry EXCEPT !.keys = @ \cup {"min"}, !.min = minValue]
                       ELSE entry
             entry2 == IF "max" \notin entry1.keys
                       THEN [entry1 EXCEPT !.keys = @ \cup {"max"}, !.max = maxValue]
                       ELSE entry1
         IN  Some(<<entry2.min, entry2.max>>)

\* l.85-99
listRanges(params, now) ==
    [imageAddedRange |-> _parse_range(params, "imageAddedRange", TimeMin, now),
     lastViewedRange |-> _parse_range(params, "lastViewedRange", TimeMin, now),
     viewcountRange |-> _parse_range(params, "viewcountRange", CountMin, CountMax),
     numAnnoRange |-> _parse_range(params, "numAnnoRange", CountMin, CountMax),
     numPredRange |-> _parse_range(params, "numPredRange", CountMin, CountMax)]

Handled(r, c, l, rep) ==
    /\ req = NoRequest
    /\ req' = r
    /\ calls' = c
    /\ locals' = l
    /\ reply' = rep
    /\ UNCHANGED importVars

\* l.72-116
list_images(project, access, params, now, mw) ==
    LET r == [handler |-> "listImages", project |-> project, access |-> access,
              body |-> params, now |-> now, mw |-> mw]
        check == loginCheckCall(project, TRUE)
        ranges == listRanges(params, now)
    IN  IF ~access
        THEN Handled(r, <<check>>, None, Abort401)
        ELSE IF params.none
        THEN \* l.100: 'orderBy' in None
             Handled(r, <<check>>, Some(ranges), Raise("TypeError"))
        ELSE LET orderBy == IF "orderBy" \in params.keys THEN Some(params.orderBy) ELSE None
                 order == IF "order" \in params.keys THEN Some(lower(params.order)) ELSE None
                 limit == IF "limit" \in params.keys THEN Some(params.limit) ELSE None
                 query == MwCall("listImages",
                              [project |-> project,
                               imageAddedRange |-> ranges.imageAddedRange,
                               lastViewedRange |-> ranges.lastViewedRange,
                               viewcountRange |-> ranges.viewcountRange,
                               numAnnoRange |-> ranges.numAnnoRange,
                               numPredRange |-> ranges.numPredRange,
                               orderBy |-> orderBy, order |-> order, limit |-> limit])
             IN  Handled(r, <<check, query>>, Some(ranges),
                         IF mw = "raise" THEN Raise("Exception")
                         ELSE Return([response |-> "result"]))

\* l.121-133
upload_images(project, access, images, mw) ==
    LET r == [handler |-> "uploadImages", project |-> project, access |-> access,
              files |-> images, mw |-> mw]
        check == loginCheckCall(project, TRUE)
    IN  IF ~access
        THEN Handled(r, <<check>>, None, Abort401)
        ELSE Handled(r, <<check, MwCall("uploadImages", [project |-> project, images |-> images])>>,
                     None,
                     IF mw = "raise" THEN Return(ErrorBody("Exception"))
                     ELSE Return([result |-> "result"]))

\* Faulty variant of scan_for_images: the scan runs before the access check.
scan_for_images_unchecked(project, access, mw) ==
    Handled([handler |-> "scanForImages", project |-> project, access |-> access, mw |-> mw],
            <<MwCall("scanForImages", [project |-> project]), loginCheckCall(project, TRUE)>>,
            None,
            IF ~access THEN Abort401
            ELSE IF mw = "raise" THEN Raise("Exception")
            ELSE Return([response |-> "result"]))
\* l.147-157
scan_for_images(project, access, mw) ==
    LET r == [handler |-> "scanForImages", project |-> project, access |-> access, mw |-> mw]
        check == loginCheckCall(project, TRUE)
    IN  IF ~access
        THEN Handled(r, <<check>>, None, Abort401)
        ELSE Handled(r, <<check, MwCall("scanForImages", [project |-> project])>>,
                     None,
                     IF mw = "raise" THEN Raise("Exception")
                     ELSE Return([response |-> "result"]))

\* l.162-175
add_images(project, access, imageNames, mw) ==
    LET r == [handler |-> "addExistingImages", project |-> project, access |-> access,
              body |-> imageNames, mw |-> mw]
        check == loginCheckCall(project, TRUE)
    IN  IF ~access
        THEN Handled(r, <<check>>, None, Abort401)
        ELSE IF imageNames.none
        THEN Handled(r, <<check>>, None, Return(ErrorBody("TypeError")))
        ELSE IF "images" \notin imageNames.keys
        THEN Handled(r, <<check>>, None, Return(ErrorBody("KeyError")))
        ELSE Handled(r, <<check, MwCall("addExistingImages",
                                    [project |-> project, imageNames |-> imageNames.images])>>,
                     None,
                     IF mw = "raise" THEN Return(ErrorBody("Exception"))
                     ELSE Return([status |-> 0, response |-> "result"]))

\* Faulty variant of flagOrFalse: an absent flag counts as True.
flagOrTrue(data, name) == IF name \in data.keys THEN data[name] ELSE TRUE
\* l.192-195, l.196-199: a flag of the request, False when it is absent
flagOrFalse(data, name) == IF name \in data.keys THEN data[name] ELSE FALSE

\* l.180-209
remove_images(project, access, data, mw) ==
    LET r == [handler |-> "removeImages", project |-> project, access |-> access,
              body |-> data, mw |-> mw]
        check == loginCheckCall(project, TRUE)
    IN  IF ~access
        THEN Handled(r, <<check>>, None, Abort401)
        ELSE IF data.none
        THEN Handled(r, <<check>>, None, Return(ErrorBody("TypeError")))
        ELSE IF "images" \notin data.keys
        THEN Handled(r, <<check>>, None, Return(ErrorBody("KeyError")))
        ELSE Handled(r, <<check, MwCall("removeImages",
                                    [project |-> project,
                                     imageIDs |-> data.images,
                                     forceRemove |-> flagOrFalse(data, "forceRemove"),
                                     deleteFromDisk |-> flagOrFalse(data, "deleteFromDisk")])>>,
                     None,
                     IF mw = "raise" THEN Return(ErrorBody("Exception"))
                     ELSE Return([status |-> 0, images_deleted |-> "images_deleted"]))

\* l.239-252: nothing follows the access check; the handler returns None
request_data_downloads(project, access) ==
    LET r == [handler |-> "requestDownloads", project |-> project, access |-> access]
    IN  Handled(r, <<loginCheckCall(project, TRUE)>>, None,
                IF ~access THEN Abort401 ELSE Return(None))

\* The response is sent; the server waits for the next request.
Respond ==
    /\ req # NoRequest
    /\ req' = NoRequest
    /\ calls' = <<>>
    /\ locals' = None
    /\ reply' = None
    /\ UNCHANGED importVars

InitImportIdle ==
    /\ staticfiles_dir = <<"/","r">>
    /\ disk = {}
    /\ table = EmptyBag
    /\ pc = [r \in Runs |-> "idle"]
    /\ imgBaseDir = [r \in Runs |-> <<>>]
    /\ imgs = [r \in Runs |-> {}]
    /\ imgs_existing = [r \in Runs |-> {}]
    /\ out = [r \in Runs |-> <<>>]

Init == InitImportIdle /\ InitHandlersIdle

\* The routes: a request arrives while the server waits for one, and its
\* handler runs.
\* l.71: POST /<project>/listImages
ListImagesRequest ==
    /\ req = NoRequest
    /\ \E project \in Projects, access \in BOOLEAN, mw \in MwOutcomes,
          params \in ListBodies \cup {NoBody}, now \in Nows :
            list_images(project, access, params, now, mw)

\* l.120: POST /<project>/uploadImages
UploadImagesRequest ==
    /\ req = NoRequest
    /\ \E project \in Projects, access \in BOOLEAN, mw \in MwOutcomes,
          images \in UploadFiles :
            upload_images(project, access, images, mw)

\* l.145: GET /<project>/scanForImages
ScanForImagesRequest ==
    /\ req = NoRequest
    /\ \E project \in Projects, access \in BOOLEAN, mw \in MwOutcomes :
            scan_for_images(project, access, mw)

\* l.161: POST /<project>/addExistingImages
AddExistingImagesRequest ==
    /\ req = NoRequest
    /\ \E project \in Projects, access \in BOOLEAN, mw \in MwOutcomes,
          imageNames \in AddBodies \cup {NoBody} :
            add_images(project, access, imageNames, mw)

\* l.179: POST /<project>/removeImages
RemoveImagesRequest ==
    /\ req = NoRequest
    /\ \E project \in Projects, access \in BOOLEAN, mw \in MwOutcomes,
          data \in RemoveBodies \cup {NoBody} :
            remove_images(project, access, data, mw)

\* l.238: POST /<project>/requestDownloads
RequestDownloadsRequest ==
    /\ req = NoRequest
    /\ \E project \in Projects, access \in BOOLEAN :
            request_data_downloads(project, access)

Next ==
    \/ ListImagesRequest
    \/ UploadImagesRequest
    \/ ScanForImagesRequest
    \/ AddExistingImagesRequest
    \/ RemoveImagesRequest
    \/ RequestDownloadsRequest
    \/ Respond

Spec == Init /\ [][Next]_vars


(***************************************************************************)
(* Properties of the request handlers (specification Spec)                 *)
(***************************************************************************)
CheckedHandlers == {"listImages", "uploadImages", "scanForImages",
                    "addExistingImages", "removeImages", "requestDownloads"}

IsMiddlewareCall(c) == c.fn # "loginCheck"

\* C1: every handler calls the access check with admin=True before any
\* middleware operation, and when the check fails the handler ends with
\* abort(401) having called nothing else and computed nothing.
C1_AccessCheckedFirst ==
    req.handler \in CheckedHandlers =>
        /\ Len(calls) >= 1
        /\ calls[1] = loginCheckCall(req.project, TRUE)
        /\ \A i \in 2..Len(calls) : IsMiddlewareCall(calls[i])
        /\ ~req.access =>
            /\ reply.kind = "abort"
            /\ reply.code = 401
            /\ Len(calls) = 1
            /\ locals = None

C1_Witness ==
    /\ req.handler = "removeImages"
    /\ ~req.access
    /\ ~req.body.none
    /\ "images" \in req.body.keys
    /\ reply.kind = "abort"

\* The sortable columns of the image inventory (the data model's fields).
SortableColumns == {"id", "filename", "dateAdded", "lastViewed", "viewcount",
                    "numAnnotations", "numPredictions"}

IsInvalidParameter(rep) ==
    \/ rep.kind = "raise" /\ rep.exc = "InvalidParameter"
    \/ /\ rep.kind = "return"
       /\ "message" \in DOMAIN rep.body
       /\ rep.body.message = "InvalidParameter"

\* C4: a listImages request whose orderBy is not a sortable column fails with
\* InvalidParameter, and the value is not handed to the query operation.
C4_UnknownOrderByFailsClosed ==
    ( /\ req.handler = "listImages"
      /\ req.access
      /\ ~req.body.none
      /\ "orderBy" \in req.body.keys
      /\ req.body.orderBy \notin SortableColumns )
    => /\ IsInvalidParameter(reply)
       /\ \A i \in 1..Len(calls) : calls[i].fn # "listImages"

IsTimeFilter(name) == name \in {"imageAddedRange", "lastViewedRange"}

\* C5: _parse_range gives None when the request has no body or no entry of
\* that name; otherwise the pair of the entry's bounds, a supplied bound
\* unchanged and a missing one replaced by the filter's default.
C5_ParseRangeDefaults ==
    (req.handler = "listImages" /\ req.access) =>
        /\ locals # None
        /\ \A name \in RangeNames :
            LET got == locals[1][name]
                defaultMin == IF IsTimeFilter(name) THEN TimeMin ELSE CountMin
                defaultMax == IF IsTimeFilter(name) THEN req.now ELSE CountMax
            IN  IF req.body.none \/ name \notin req.body.keys
                THEN got = None
                ELSE /\ got # None
                     /\ got[1][1] = IF "min" \in req.body[name].keys
                                    THEN req.body[name].min ELSE defaultMin
                     /\ got[1][2] = IF "max" \in req.body[name].keys
                                    THEN req.body[name].max ELSE defaultMax

C5_Witness ==
    /\ req.handler = "listImages"
    /\ req.access
    /\ ~req.body.none
    /\ req.body.keys = {"lastViewedRange", "numAnnoRange"}
    /\ req.body.lastViewedRange.keys = {"min"}
    /\ req.body.numAnnoRange.keys = {"max"}
    /\ locals[1].lastViewedRange = Some(<<req.body.lastViewedRange.min, req.now>>)
    /\ locals[1].numAnnoRange = Some(<<CountMin, req.body.numAnnoRange.max>>)
    /\ locals[1].viewcountRange = None

\* Values the viewcount column of an image can hold.
ViewcountValues == {0, 4, 5, 6, 7, 8, CountMax - 1, CountMax, CountMax + 1, 2147483647}

InRange(v, range) == range[1] <= v /\ v <= range[2]

\* A listImages request that reached the query with only a minimum in its
\* viewcountRange.
MinOnlyViewcountQuery ==
    /\ req.handler = "listImages"
    /\ req.access
    /\ ~req.body.none
    /\ "viewcountRange" \in req.body.keys
    /\ req.body.viewcountRange.keys = {"min"}
    /\ Len(calls) = 2

\* C6 as claimed: with only a minimum supplied, every viewcount at or above
\* it, however large, lies in the range handed to the query.
C6_MinOnlyHasNoUpperBound ==
    MinOnlyViewcountQuery =>
        /\ calls[2].args.viewcountRange # None
        /\ \A v \in ViewcountValues :
            v >= req.body.viewcountRange.min
                => InRange(v, calls[2].args.viewcountRange[1])

\* C6 as amended: with only a minimum supplied, every viewcount from that
\* minimum up to the default maximum 1e9 lies in the range handed to the
\* query, and no viewcount below the minimum does.
C6_MinOnlyUpToDefaultMax ==
    MinOnlyViewcountQuery =>
        /\ calls[2].args.viewcountRange # None
        /\ \A v \in ViewcountValues :
            InRange(v, calls[2].args.viewcountRange[1])
                <=> (req.body.viewcountRange.min <= v /\ v <= CountMax)

C6_Witness ==
    /\ MinOnlyViewcountQuery
    /\ req.body.viewcountRange.min = 5
    /\ calls[2].args.viewcountRange = Some(<<5, CountMax>>)
    /\ reply.kind = "return"

\* C9: a handler that passed the access check never lets an exception
\* escape; a failure comes back as a body with a status and a message.
C9_FailuresAreReturned ==
    ( /\ req.handler \in {"listImages", "scanForImages", "uploadImages",
                          "addExistingImages", "removeImages"}
      /\ req.access )
    => /\ reply.kind = "return"
       /\ (req.mw = "raise" /\ Len(calls) = 2)
            => {"status", "message"} \subseteq DOMAIN reply.body

\* C10: removeImages hands each of forceRemove and deleteFromDisk to the
\* removal operation as the request gives it, and as False when the request
\* does not hold it.
C10_RemoveFlagsDefaultFalse ==
    ( /\ req.handler = "removeImages"
      /\ req.access
      /\ ~req.body.none
      /\ "images" \in req.body.keys )
    => /\ Len(calls) = 2
       /\ calls[2].fn = "removeImages"
       /\ calls[2].args.imageIDs = req.body.images
       /\ calls[2].args.forceRemove =
            IF "forceRemove" \in req.body.keys THEN req.body.forceRemove ELSE FALSE
       /\ calls[2].args.deleteFromDisk =
            IF "deleteFromDisk" \in req.body.keys THEN req.body.deleteFromDisk ELSE FALSE

C10_Witness ==
    /\ req.handler = "removeImages"
    /\ req.access
    /\ ~req.body.none
    /\ req.body.keys = {"images"}
    /\ Len(calls) = 2
    /\ calls[2].args.forceRemove = FALSE
    /\ calls[2].args.deleteFromDisk = FALSE

(***************************************************************************)
(* Properties of the import script (SpecImport, SpecSequential)            *)
(***************************************************************************)
K_b_JPG     == <<"b",".","J","P","G">>
K_sub_d_png == <<"s","u","b","/","d",".","p","n","g">>

\* The non-directory entries of the model's disks whose extension, compared
\* case-insensitively, is .jpg or .png.
ImagePaths == {F_a_jpg, F_b_JPG, F_sub_d_png, F_xa_jpg, F_x_r_a_jpg}
ImagesOnDisk == { e.path : e \in { x \in disk : ~x.isdir } } \cap ImagePaths

ExampleFiles == {File(F_a_jpg), File(F_b_JPG), File(F_c_txt), File(F_sub_d_png)}

\* C7: the scan keeps exactly the non-directory entries with a valid
\* extension (case-insensitive) and drops every other entry; the files a.jpg,
\* b.JPG, c.txt, sub/d.png yield exactly a.jpg, b.JPG, sub/d.png.
C7_ScanKeepsExactlyImages ==
    \A r \in Runs : pc[r] = "filter" =>
        /\ imgs[r] = { baseName(p, imgBaseDir[r]) : p \in ImagesOnDisk }
        /\ { x \in disk : ~x.isdir } = ExampleFiles
            => imgs[r] = {K_a_jpg, K_b_JPG, K_sub_d_png}

C7_Witness ==
    \E r \in Runs :
        /\ pc[r] = "filter"
        /\ { x \in disk : ~x.isdir } = ExampleFiles
        /\ Dir(D_e_jpg) \in disk
        /\ imgs[r] = {K_a_jpg, K_b_JPG, K_sub_d_png}

\* The path of p relative to the root: p without the root prefix.
RelativeTo(p, baseDir) == SubSeq(p, Len(baseDir) + 1, Len(p))

\* C8: every key the scan returns is a file's path relative to the image
\* root, and two distinct files never get the same key.
C8_DistinctFilesDistinctKeys ==
    \A r \in Runs : pc[r] = "filter" =>
        /\ imgs[r] = { RelativeTo(p, imgBaseDir[r]) : p \in ImagesOnDisk }
        /\ \A k \in imgs[r] : k[1] # sep
        /\ Cardinality(imgs[r]) = Cardinality(ImagesOnDisk)

ProgressLines == {"Setup...", "Locating image paths...",
                  "Filter images already in database...",
                  "Adding to database...", "Done."}

ReportLines(r) == { i \in 1..Len(out[r]) : out[r][i] \notin ProgressLines }

C3_RaceHasOneWinner ==
    /\ \A f \in BagToSet(table) : CopiesIn(f, table) = 1
    /\ \A f \in UNION { imgs[r] : r \in Runs } :
        LET finished == { r \in Runs : pc[r] \in {"done", "failed"} /\ f \in imgs[r] }
        IN  finished # {} =>
                /\ Cardinality({ r \in finished : pc[r] = "done" }) = 1
                /\ CopiesIn(f, table) = 1

C3_Witness ==
    \E r, s \in Runs :
        /\ pc[r] = "done"
        /\ pc[s] = "failed"
        /\ imgs[r] \cap imgs[s] # {}
        /\ table = SetToBag(imgs[r] \cup imgs_existing[r])

=============================================================================
